---- MODULE Spec2Model ----
(***************************************************************************)
(* A model of the Promize class of src/Promise.js (first draft of the      *)
(* file, lines 1-357, the only one that has the combinators).              *)
(*                                                                         *)
(* The heap of Promize objects is kept as parallel sequences indexed by    *)
(* the object's identity (1, 2, ...): #state, #value, #thenCallbacks and   *)
(* #catchCallbacks.  The microtask queue of the runtime (queueMicrotask)   *)
(* is the sequence microtasks.  A synchronous piece of JavaScript (a       *)
(* method call with everything it calls) is one action; the nested calls   *)
(* are operators from heap record to heap record.                          *)
(***************************************************************************)
EXTENDS Integers, Sequences, FiniteSets, TLC

VARIABLES
  state,          \* p |-> this.#state
  value,          \* p |-> this.#value
  thenCallbacks,  \* p |-> this.#thenCallbacks
  catchCallbacks, \* p |-> this.#catchCallbacks
  microtasks,     \* the runtime's microtask queue (FIFO)
  sync,           \* TRUE while script code is on the call stack
  origin,         \* history: how each object was made
  capCalls,       \* history: p |-> the capability calls the script made on p
  calls,          \* history: the handler invocations, in order
  ops,            \* number of calls the script has made (bounding)
  combs,          \* k |-> the locals of the k-th all / allSettled / race call
  closures,       \* c |-> the c-th closure made by a combinator
  settleOrder     \* history: the objects in the order they were settled

vars == <<state, value, thenCallbacks, catchCallbacks, microtasks, sync,
          origin, capCalls, calls, ops, combs, closures, settleOrder>>

\* ---------------------------------------------------------------- bounds
MaxOps == 3
MaxInputs == 3

\* ---------------------------------------------------------------- STATES
PENDING == "PENDING"
REJECTED == "REJECTED"
FULFILLED == "FULFILLED"
STATES == {PENDING, REJECTED, FULFILLED}

\* ---------------------------------------------------------------- values
\* A JavaScript value: a plain value (0 is undefined), a Promize object, or
\* the result array of the k-th combinator call (an array is passed by
\* reference: what it holds is combs[k].result).
Plain(x) == [isPromize |-> FALSE, isArray |-> FALSE, v |-> x]
Ref(p) == [isPromize |-> TRUE, isArray |-> FALSE, v |-> p]
ArrayRef(k) == [isPromize |-> FALSE, isArray |-> TRUE, v |-> k]
Undefined == Plain(0)
InstanceofPromize(x) == x.isPromize

\* What can be passed as onFulfilled / onRejected.
NotFn == [kind |-> "none", arg |-> Undefined]           \* not a function
Id == [kind |-> "id", arg |-> Undefined]                \* v => v
Const(x) == [kind |-> "const", arg |-> x]               \* () => x
Throw(x) == [kind |-> "throw", arg |-> x]               \* () => { throw x }
OnFulfilledBind(p) == [kind |-> "onFulfilledBind", arg |-> Ref(p)]
OnRejectedBind(p) == [kind |-> "onRejectedBind", arg |-> Ref(p)]
IsFunction(f) == f.kind # "none"
\* The two functions finally(callback) passes to then; c names the callback:
\* 0 is a callback of the script that returns, c > 0 is closures[c].
FinallyThen(c) == [kind |-> "finallyThen", arg |-> Plain(c)]
FinallyCatch(c) == [kind |-> "finallyCatch", arg |-> Plain(c)]
\* v => { if (!done) { done = true; p.then(w => w) } }: a handler that, the
\* first time it is invoked, makes a chain on p.
ChainOnce(p) == [kind |-> "chainOnce", arg |-> Ref(p)]
\* closures[c] passed as a handler.
Closure(c) == [kind |-> "closure", arg |-> Plain(c)]
\* The error of calling a method that a value does not have.
TypeError == Plain(3)

\* ---------------------------------------------------------------- arrays
\* An entry of a result array: a hole, a value as all stores it, or the
\* record { status, value } / { status, reason } that allSettled stores.
Hole == [status |-> "hole", val |-> Undefined]
Item(x) == [status |-> "item", val |-> x]
SettledRecord(s, x) == [status |-> s, val |-> x]

\* result[i] = e, positions counted from 1: the array grows to reach i.
SetAt(arr, i, e) ==
  [j \in 1..(IF i > Len(arr) THEN i ELSE Len(arr)) |->
     IF j = i THEN e ELSE IF j <= Len(arr) THEN arr[j] ELSE Hole]

\* ---------------------------------------------------------------- heap
Heap == [state |-> state, value |-> value, thenCallbacks |-> thenCallbacks,
         catchCallbacks |-> catchCallbacks, microtasks |-> microtasks,
         origin |-> origin, calls |-> calls, combs |-> combs,
         closures |-> closures, settleOrder |-> settleOrder]

Commit(h) ==
  /\ state' = h.state
  /\ value' = h.value
  /\ thenCallbacks' = h.thenCallbacks
  /\ catchCallbacks' = h.catchCallbacks
  /\ microtasks' = h.microtasks
  /\ origin' = h.origin
  /\ calls' = h.calls
  /\ combs' = h.combs
  /\ closures' = h.closures
  /\ settleOrder' = h.settleOrder

NoOrigin == [kind |-> "new", src |-> 0, onFulfilled |-> NotFn,
             onRejected |-> NotFn, arg |-> Undefined]

\* constructor, lines 40-48: a new object, pending, value undefined, both
\* queues empty.  The executor's run is the caller's part.
Construct(h, org) ==
  [h EXCEPT !.state = Append(@, PENDING),
            !.value = Append(@, Undefined),
            !.thenCallbacks = Append(@, <<>>),
            !.catchCallbacks = Append(@, <<>>),
            !.origin = Append(@, org)]

\* Mutant: the state is written before the work is deferred.
OnFulfilledEager(h, p, x) ==
  LET h1 == IF h.state[p] = PENDING /\ ~InstanceofPromize(x)
            THEN [h EXCEPT !.state[p] = FULFILLED, !.value[p] = x]
            ELSE h
  IN [h1 EXCEPT !.microtasks = Append(@, [fn |-> "onFulfilled", this |-> p, arg |-> x])]

\* #onFulfilled / #onRejected up to the queueMicrotask call: nothing but
\* the scheduling of the settlement attempt.
OnFulfilled(h, p, x) ==
  [h EXCEPT !.microtasks = Append(@, [fn |-> "onFulfilled", this |-> p, arg |-> x])]

OnRejected(h, p, x) ==
  [h EXCEPT !.microtasks = Append(@, [fn |-> "onRejected", this |-> p, arg |-> x])]

UpdateStateAndValue(h, p, s, x) ==
  [h EXCEPT !.state[p] = s, !.value[p] = x, !.settleOrder = Append(@, p)]

\* if (completedPromises === values.length) resolve(result), lines 176, 219
\* and 233.
ResolveIfComplete(h, k) ==
  IF h.combs[k].completedPromises = Len(h.combs[k].values)
  THEN OnFulfilled(h, h.combs[k].promise, ArrayRef(k))
  ELSE h

\* A call of the closure c with the argument x: the handlers that all
\* (lines 165-177) and allSettled (lines 212-220, 221-226, 227-234) pass to
\* then, catch and finally.  Closure 0 is the script's () => {}.  None
\* throws and all return undefined.
RunClosure(h, c, x) ==
  IF c = 0 THEN h
  ELSE LET k == h.closures[c].comb
           i == h.closures[c].i
           fn == h.closures[c].fn
       IN CASE fn = "allThen" ->
                 ResolveIfComplete(
                   [h EXCEPT !.combs[k].completedPromises = @ + 1,
                             !.combs[k].result = SetAt(@, i, Item(x))], k)
            [] fn = "allSettledThen" ->
                 ResolveIfComplete(
                   [h EXCEPT !.combs[k].result =
                               SetAt(@, i, SettledRecord("fulfilled", x))], k)
            [] fn = "allSettledCatch" ->
                 [h EXCEPT !.combs[k].result =
                             SetAt(@, i, SettledRecord("rejected", x))]
            [] fn = "allSettledFinally" ->
                 ResolveIfComplete(
                   [h EXCEPT !.combs[k].completedPromises = @ + 1], k)

\* A handler may call then: then is defined below.
RECURSIVE Then(_, _, _, _)

\* Mutant: the second function of finally does not call the callback.
CallFunctionNoCallbackOnReject(h, f, result, d, path) ==
  LET logged == [h EXCEPT !.calls = Append(@, [d |-> d, path |-> path,
                              inline |-> sync, arg |-> result,
                              callback |-> f.kind = "finallyThen"])]
  IN CASE f.kind = "id" -> [h |-> logged, threw |-> FALSE, ret |-> result]
       [] f.kind = "const" -> [h |-> logged, threw |-> FALSE, ret |-> f.arg]
       [] f.kind = "throw" -> [h |-> logged, threw |-> TRUE, ret |-> f.arg]
       [] f.kind = "onFulfilledBind" ->
            [h |-> OnFulfilled(logged, f.arg.v, result), threw |-> FALSE,
             ret |-> Undefined]
       [] f.kind = "onRejectedBind" ->
            [h |-> OnRejected(logged, f.arg.v, result), threw |-> FALSE,
             ret |-> Undefined]
       [] f.kind = "closure" ->
            [h |-> RunClosure(logged, f.arg.v, result), threw |-> FALSE,
             ret |-> Undefined]
       [] f.kind = "chainOnce" ->
            [h |-> IF \E j \in 1..Len(h.calls) : h.calls[j].d = d
                   THEN logged
                   ELSE Then(logged, f.arg.v, Id, NotFn),
             threw |-> FALSE, ret |-> Undefined]
       [] f.kind = "finallyThen" ->
            [h |-> RunClosure(logged, f.arg.v, Undefined), threw |-> FALSE,
             ret |-> result]
       [] f.kind = "finallyCatch" ->
            [h |-> logged, threw |-> TRUE, ret |-> result]

\* A call of the function f with one argument, made by the callback that
\* then() registered for the derived object d on the given path.  The
\* result says whether the call threw and what it returned or threw.  The
\* log entry says whether the call invoked the callback of a finally.
CallFunction(h, f, result, d, path) ==
  LET logged == [h EXCEPT !.calls = Append(@, [d |-> d, path |-> path,
                              inline |-> sync, arg |-> result,
                              callback |-> f.kind \in {"finallyThen", "finallyCatch"}])]
  IN CASE f.kind = "id" -> [h |-> logged, threw |-> FALSE, ret |-> result]
       [] f.kind = "const" -> [h |-> logged, threw |-> FALSE, ret |-> f.arg]
       [] f.kind = "throw" -> [h |-> logged, threw |-> TRUE, ret |-> f.arg]
       [] f.kind = "onFulfilledBind" ->
            [h |-> OnFulfilled(logged, f.arg.v, result), threw |-> FALSE,
             ret |-> Undefined]
       [] f.kind = "onRejectedBind" ->
            [h |-> OnRejected(logged, f.arg.v, result), threw |-> FALSE,
             ret |-> Undefined]
       [] f.kind = "closure" ->
            [h |-> RunClosure(logged, f.arg.v, result), threw |-> FALSE,
             ret |-> Undefined]
       [] f.kind = "chainOnce" ->
            [h |-> IF \E j \in 1..Len(h.calls) : h.calls[j].d = d
                   THEN logged
                   ELSE Then(logged, f.arg.v, Id, NotFn),
             threw |-> FALSE, ret |-> Undefined]
       [] f.kind = "finallyThen" ->
            [h |-> RunClosure(logged, f.arg.v, Undefined), threw |-> FALSE,
             ret |-> result]
       [] f.kind = "finallyCatch" ->
            [h |-> RunClosure(logged, f.arg.v, Undefined), threw |-> TRUE,
             ret |-> result]

\* Mutant: a missing onFulfilled resolves the derived object with nothing.
ThenCallbackDropsValue(h, cb, result) ==
  IF ~IsFunction(cb.handler)
  THEN OnFulfilled(h, cb.d, Undefined)
  ELSE LET r == CallFunction(h, cb.handler, result, cb.d, "then")
       IN IF r.threw THEN OnRejected(r.h, cb.d, r.ret)
                     ELSE OnFulfilled(r.h, cb.d, r.ret)

\* Mutant: what onFulfilled throws is passed to resolve.
ThenCallbackNoCatch(h, cb, result) ==
  IF ~IsFunction(cb.handler)
  THEN OnFulfilled(h, cb.d, result)
  ELSE LET r == CallFunction(h, cb.handler, result, cb.d, "then")
       IN OnFulfilled(r.h, cb.d, r.ret)

\* The closure pushed on #thenCallbacks, lines 58-80.
ThenCallback(h, cb, result) ==
  IF ~IsFunction(cb.handler)
  THEN OnFulfilled(h, cb.d, result)
  ELSE LET r == CallFunction(h, cb.handler, result, cb.d, "then")
       IN IF r.threw THEN OnRejected(r.h, cb.d, r.ret)
                     ELSE OnFulfilled(r.h, cb.d, r.ret)

\* Mutant: what onRejected returns is passed to reject, not to resolve.
CatchCallbackRejects(h, cb, result) ==
  IF ~IsFunction(cb.handler)
  THEN OnRejected(h, cb.d, result)
  ELSE LET r == CallFunction(h, cb.handler, result, cb.d, "catch")
       IN OnRejected(r.h, cb.d, r.ret)

\* The closure pushed on #catchCallbacks, lines 82-101.
CatchCallback(h, cb, result) ==
  IF ~IsFunction(cb.handler)
  THEN OnRejected(h, cb.d, result)
  ELSE LET r == CallFunction(h, cb.handler, result, cb.d, "catch")
       IN IF r.threw THEN OnRejected(r.h, cb.d, r.ret)
                     ELSE OnFulfilled(r.h, cb.d, r.ret)

\* Mutant: the run of the queue ends at the first handler that throws.
RECURSIVE ForEachThenStopsOnThrow(_, _, _)
ForEachThenStopsOnThrow(h, cbs, result) ==
  IF cbs = <<>> THEN h
  ELSE IF Head(cbs).handler.kind = "throw"
       THEN ThenCallback(h, Head(cbs), result)
       ELSE ForEachThenStopsOnThrow(ThenCallback(h, Head(cbs), result),
                                    Tail(cbs), result)

\* Mutant: the queue is run from its newest entry to its oldest.
RECURSIVE ForEachThenReversed(_, _, _)
ForEachThenReversed(h, cbs, result) ==
  IF cbs = <<>> THEN h
  ELSE ThenCallback(ForEachThenReversed(h, Tail(cbs), result), Head(cbs), result)

\* this.#thenCallbacks.forEach(callback => callback(this.#value)), line 261.
RECURSIVE ForEachThen(_, _, _)
ForEachThen(h, cbs, result) ==
  IF cbs = <<>> THEN h
  ELSE ForEachThen(ThenCallback(h, Head(cbs), result), Tail(cbs), result)

\* this.#catchCallbacks.forEach(callback => callback(this.#value)), line 269.
RECURSIVE ForEachCatch(_, _, _)
ForEachCatch(h, cbs, result) ==
  IF cbs = <<>> THEN h
  ELSE ForEachCatch(CatchCallback(h, Head(cbs), result), Tail(cbs), result)

\* #executeCallbacks, lines 257-275.
ExecuteCallbacks(h, p) ==
  LET h1 == IF h.state[p] = FULFILLED
            THEN [ForEachThen(h, h.thenCallbacks[p], h.value[p])
                    EXCEPT !.thenCallbacks[p] = <<>>]
            ELSE h
  IN IF h1.state[p] = REJECTED
     THEN [ForEachCatch(h1, h1.catchCallbacks[p], h1.value[p])
             EXCEPT !.catchCallbacks[p] = <<>>]
     ELSE h1

\* Mutant: then registers the two closures and does not run the queues.
ThenNoDrain(h, p, onFulfilled, onRejected) ==
  LET d == Len(h.state) + 1
      h1 == Construct(h, [kind |-> "then", src |-> p, onFulfilled |-> onFulfilled,
                          onRejected |-> onRejected, arg |-> Undefined])
  IN [h1 EXCEPT
        !.thenCallbacks[p] = Append(@, [handler |-> onFulfilled, d |-> d]),
        !.catchCallbacks[p] = Append(@, [handler |-> onRejected, d |-> d])]

\* then(onFulfilled, onRejected), lines 56-105.  The derived object is the
\* next identity, Len(h.state) + 1.
Then(h, p, onFulfilled, onRejected) ==
  LET d == Len(h.state) + 1
      h1 == Construct(h, [kind |-> "then", src |-> p, onFulfilled |-> onFulfilled,
                          onRejected |-> onRejected, arg |-> Undefined])
      h2 == [h1 EXCEPT
               !.thenCallbacks[p] = Append(@, [handler |-> onFulfilled, d |-> d]),
               !.catchCallbacks[p] = Append(@, [handler |-> onRejected, d |-> d])]
  IN ExecuteCallbacks(h2, p)

\* finally(callback), lines 113-122; c names the callback.
Finally(h, p, c) == Then(h, p, FinallyThen(c), FinallyCatch(c))

\* Mutant: the settlement attempt without the check of line 286.
OnFulfilledTaskUnguarded(h, p, x) ==
  IF InstanceofPromize(x)
  THEN Then(h, x.v, OnFulfilledBind(p), OnRejectedBind(p))
  ELSE ExecuteCallbacks(UpdateStateAndValue(h, p, FULFILLED, x), p)

\* The microtask queued by #onFulfilled, lines 283-308.
OnFulfilledTask(h, p, x) ==
  IF h.state[p] # PENDING THEN h
  ELSE IF InstanceofPromize(x)
       THEN Then(h, x.v, OnFulfilledBind(p), OnRejectedBind(p))
       ELSE ExecuteCallbacks(UpdateStateAndValue(h, p, FULFILLED, x), p)

\* The microtask queued by #onRejected, lines 317-345.
OnRejectedTask(h, p, x) ==
  IF h.state[p] # PENDING THEN h
  ELSE IF InstanceofPromize(x)
       THEN Then(h, x.v, OnFulfilledBind(p), OnRejectedBind(p))
       ELSE ExecuteCallbacks(UpdateStateAndValue(h, p, REJECTED, x), p)

\* ---------------------------------------------------------------- combinators
\* The locals of a combinator call: its argument, completedPromises,
\* result, and the object it returns; atCall keeps the state each element
\* had when the call was made (history; PENDING for a plain value).
NewComb(h, kind, values) ==
  [kind |-> kind, values |-> values, completedPromises |-> 0, result |-> <<>>,
   promise |-> Len(h.state) + 1,
   atCall |-> [i \in 1..Len(values) |->
                 IF InstanceofPromize(values[i]) THEN h.state[values[i].v]
                                                 ELSE PENDING]]

\* The object a combinator returns: new Promize(executor) up to the
\* executor's run, with the locals of the call.
ConstructComb(h, kind, values) ==
  [Construct(h, [NoOrigin EXCEPT !.kind = kind])
     EXCEPT !.combs = Append(@, NewComb(h, kind, values))]

\* Mutant: a plain element is counted but not stored.
AllPlainNotStored(h, k, i) ==
  LET c == h.combs[k]
      h1 == IF c.completedPromises = Len(c.values) - 1
            THEN OnFulfilled(h, c.promise, ArrayRef(k)) ELSE h
  IN [h1 EXCEPT !.combs[k].completedPromises = @ + 1]

\* all, lines 156-161: the element i is not a Promize.
AllPlain(h, k, i) ==
  LET c == h.combs[k]
      h1 == IF c.completedPromises = Len(c.values) - 1
            THEN OnFulfilled(h, c.promise, ArrayRef(k)) ELSE h
  IN [h1 EXCEPT !.combs[k].result = SetAt(@, i, Item(c.values[i])),
                !.combs[k].completedPromises = @ + 1]

\* Mutant: the rejection of an element is not passed on.
AllSubscribeNoCatch(h, k, i) ==
  LET c == h.combs[k]
      cl == Len(h.closures) + 1
      h1 == [h EXCEPT !.closures = Append(@, [fn |-> "allThen", comb |-> k, i |-> i])]
  IN Then(h1, c.values[i].v, Closure(cl), NotFn)

\* all, lines 165-178: promise.then(val => ...).catch(reject).
AllSubscribe(h, k, i) ==
  LET c == h.combs[k]
      cl == Len(h.closures) + 1
      h1 == [h EXCEPT !.closures = Append(@, [fn |-> "allThen", comb |-> k, i |-> i])]
      d == Len(h1.state) + 1
  IN Then(Then(h1, c.values[i].v, Closure(cl), NotFn),
          d, NotFn, OnRejectedBind(c.promise))

\* all, lines 149-179: the loop from element i on.
RECURSIVE AllLoop(_, _, _)
AllLoop(h, k, i) ==
  IF i > Len(h.combs[k].values) THEN h
  ELSE IF InstanceofPromize(h.combs[k].values[i])
       THEN AllLoop(AllSubscribe(h, k, i), k, i + 1)
       ELSE AllLoop(AllPlain(h, k, i), k, i + 1)

\* Promize.all(values), lines 136-181.
All(h, values) ==
  AllLoop(ConstructComb(h, "all", values), Len(h.combs) + 1, 1)

\* allSettled, lines 203-208: the element i is not a Promize.
AllSettledPlain(h, k, i) ==
  LET c == h.combs[k]
      h1 == IF c.completedPromises = Len(c.values) - 1
            THEN OnFulfilled(h, c.promise, ArrayRef(k)) ELSE h
  IN [h1 EXCEPT !.combs[k].result =
                   SetAt(@, i, SettledRecord("fulfilled", c.values[i])),
                !.combs[k].completedPromises = @ + 1]

\* Mutant: the rejection of an element is passed to the object returned.
AllSettledSubscribeRejects(h, k, i) ==
  LET c == h.combs[k]
      cl == Len(h.closures)
      h1 == [h EXCEPT !.closures = @ \o
               <<[fn |-> "allSettledThen", comb |-> k, i |-> i],
                 [fn |-> "allSettledCatch", comb |-> k, i |-> i],
                 [fn |-> "allSettledFinally", comb |-> k, i |-> i]>>]
      d == Len(h1.state) + 1
  IN Finally(Then(Then(h1, c.values[i].v, Closure(cl + 1), NotFn),
                  d, NotFn, OnRejectedBind(c.promise)),
             d + 1, cl + 3)

\* allSettled, lines 212-234:
\* promise.then(val => ...).catch(reason => ...).finally(() => ...).
AllSettledSubscribe(h, k, i) ==
  LET c == h.combs[k]
      cl == Len(h.closures)
      h1 == [h EXCEPT !.closures = @ \o
               <<[fn |-> "allSettledThen", comb |-> k, i |-> i],
                 [fn |-> "allSettledCatch", comb |-> k, i |-> i],
                 [fn |-> "allSettledFinally", comb |-> k, i |-> i]>>]
      d == Len(h1.state) + 1
  IN Finally(Then(Then(h1, c.values[i].v, Closure(cl + 1), NotFn),
                  d, NotFn, Closure(cl + 2)),
             d + 1, cl + 3)

\* allSettled, lines 196-235: the loop from element i on.
RECURSIVE AllSettledLoop(_, _, _)
AllSettledLoop(h, k, i) ==
  IF i > Len(h.combs[k].values) THEN h
  ELSE IF InstanceofPromize(h.combs[k].values[i])
       THEN AllSettledLoop(AllSettledSubscribe(h, k, i), k, i + 1)
       ELSE AllSettledLoop(AllSettledPlain(h, k, i), k, i + 1)

\* Promize.allSettled(values), lines 183-237.
AllSettled(h, values) ==
  AllSettledLoop(ConstructComb(h, "allSettled", values), Len(h.combs) + 1, 1)

\* Mutant: an element is subscribed with then(resolve, reject).
RaceSubscribeOneHop(h, k, i) ==
  LET c == h.combs[k]
  IN Then(h, c.values[i].v, OnFulfilledBind(c.promise), OnRejectedBind(c.promise))

\* race, line 251 for an element that is a Promize:
\* promise.then(resolve).catch(reject).
RaceSubscribe(h, k, i) ==
  LET c == h.combs[k]
      d == Len(h.state) + 1
  IN Then(Then(h, c.values[i].v, OnFulfilledBind(c.promise), NotFn),
          d, NotFn, OnRejectedBind(c.promise))

\* Mutant: a plain element is passed to reject.
RacePlainRejects(h, k, i) ==
  OnRejected(h, h.combs[k].promise, h.combs[k].values[i])

\* race, line 250 for an element that is not a Promize: resolve(promise).
RacePlain(h, k, i) ==
  OnFulfilled(h, h.combs[k].promise, h.combs[k].values[i])

\* race, lines 247-252: the forEach from element i on.  For an element that
\* is not a Promize, line 251 throws (the element has no then): the loop
\* ends there and the constructor passes the error to the reject
\* capability (lines 51-53).
RECURSIVE RaceLoop(_, _, _)
RaceLoop(h, k, i) ==
  IF i > Len(h.combs[k].values) THEN h
  ELSE IF InstanceofPromize(h.combs[k].values[i])
       THEN RaceLoop(RaceSubscribe(h, k, i), k, i + 1)
       ELSE OnRejected(RacePlain(h, k, i), h.combs[k].promise, TypeError)

\* Mutant: race of no element resolves the object it returns.
RaceEmptyResolves(h, values) ==
  IF values = <<>>
  THEN OnFulfilled(ConstructComb(h, "race", values), Len(h.state) + 1, Undefined)
  ELSE RaceLoop(ConstructComb(h, "race", values), Len(h.combs) + 1, 1)

\* Promize.race(values), lines 239-254.
Race(h, values) ==
  RaceLoop(ConstructComb(h, "race", values), Len(h.combs) + 1, 1)

\* ---------------------------------------------------------------- inputs
PlainValues == {Plain(1), Plain(2)}
Values == PlainValues \cup {Ref(p) : p \in 1..Len(state)}
Functions == {Id, Const(Plain(2)), Throw(Plain(1))}
Handlers == {NotFn} \cup Functions

\* What an executor does with its capabilities while it runs: nothing (it
\* keeps them for later), one call of resolve or of reject, or it throws an
\* error (a plain value) before any such call.
NoCall == [fn |-> "none", arg |-> Undefined]
Executors == {NoCall} \cup {[fn |-> f, arg |-> x] :
                              f \in {"onFulfilled", "onRejected"}, x \in Values}
                      \cup {[fn |-> "throw", arg |-> x] : x \in PlainValues}

\* The arguments of a combinator: sequences of at most MaxInputs plain
\* values and objects the script has made.
Elements ==
  PlainValues \cup {Ref(p) : p \in {q \in 1..Len(state) :
                                      origin[q].kind \in {"new", "resolve", "reject"}}}
Inputs ==
  UNION {[1..n -> Elements] : n \in 0..MaxInputs}

\* The script makes at most MaxOps calls into the class.
Room == ops < MaxOps

\* ---------------------------------------------------------------- Init
Init ==
  /\ state = <<>>
  /\ value = <<>>
  /\ thenCallbacks = <<>>
  /\ catchCallbacks = <<>>
  /\ microtasks = <<>>
  /\ sync = TRUE
  /\ origin = <<>>
  /\ capCalls = <<>>
  /\ calls = <<>>
  /\ ops = 0
  /\ combs = <<>>
  /\ closures = <<>>
  /\ settleOrder = <<>>

\* ---------------------------------------------------------------- script
\* Mutant: the constructor has no catch, the error is lost.
RunExecutorNoCatch(h, p, ex) ==
  CASE ex.fn = "onFulfilled" -> OnFulfilled(h, p, ex.arg)
    [] ex.fn = "onRejected" -> OnRejected(h, p, ex.arg)
    [] OTHER -> h

\* The executor's call, constructor lines 49-53: what the executor throws
\* is caught and passed to this.#onRejectedBind.
RunExecutor(h, p, ex) ==
  CASE ex.fn = "onFulfilled" -> OnFulfilled(h, p, ex.arg)
    [] ex.fn = "onRejected" -> OnRejected(h, p, ex.arg)
    [] ex.fn = "throw" -> OnRejected(h, p, ex.arg)
    [] OTHER -> h

\* new Promize(executor), with an executor that keeps the two capabilities
\* (Resolve and Reject below are their later calls by the script).
NewPromize(ex) ==
  /\ sync /\ Room
  /\ Commit(RunExecutor(Construct(Heap, NoOrigin), Len(state) + 1, ex))
  /\ capCalls' = Append(capCalls, IF ex = NoCall THEN <<>> ELSE <<ex>>)
  /\ ops' = ops + 1
  /\ UNCHANGED sync

\* A call of the resolve capability of p by the script:
\* this.#onFulfilledBind(x).
Resolve(p, x) ==
  /\ sync /\ Room
  /\ origin[p].kind = "new"
  /\ Commit(OnFulfilled(Heap, p, x))
  /\ capCalls' = [capCalls EXCEPT ![p] = Append(@, [fn |-> "onFulfilled", arg |-> x])]
  /\ ops' = ops + 1
  /\ UNCHANGED sync

\* A call of the reject capability of p by the script.
Reject(p, x) ==
  /\ sync /\ Room
  /\ origin[p].kind = "new"
  /\ Commit(OnRejected(Heap, p, x))
  /\ capCalls' = [capCalls EXCEPT ![p] = Append(@, [fn |-> "onRejected", arg |-> x])]
  /\ ops' = ops + 1
  /\ UNCHANGED sync

\* Promize.resolve(x), lines 124-128.
StaticResolve(x) ==
  /\ sync /\ Room
  /\ LET p == Len(state) + 1
         h == Construct(Heap, [NoOrigin EXCEPT !.kind = "resolve", !.arg = x])
     IN Commit(OnFulfilled(h, p, x))
  /\ capCalls' = Append(capCalls, <<[fn |-> "onFulfilled", arg |-> x]>>)
  /\ ops' = ops + 1
  /\ UNCHANGED sync

\* Promize.reject(x), lines 130-134.
StaticReject(x) ==
  /\ sync /\ Room
  /\ LET p == Len(state) + 1
         h == Construct(Heap, [NoOrigin EXCEPT !.kind = "reject", !.arg = x])
     IN Commit(OnRejected(h, p, x))
  /\ capCalls' = Append(capCalls, <<[fn |-> "onRejected", arg |-> x]>>)
  /\ ops' = ops + 1
  /\ UNCHANGED sync

\* p.then(onFulfilled, onRejected) called by the script.
ThenCall(p, onFulfilled, onRejected) ==
  /\ sync /\ Room
  /\ Commit(Then(Heap, p, onFulfilled, onRejected))
  /\ capCalls' = capCalls \o [i \in 1..(Len(state') - Len(state)) |-> <<>>]
  /\ ops' = ops + 1
  /\ UNCHANGED sync

\* p.catch(callback), lines 107-111.
CatchCall(p, callback) ==
  /\ sync /\ Room
  /\ Commit(Then(Heap, p, NotFn, callback))
  /\ capCalls' = Append(capCalls, <<>>)
  /\ ops' = ops + 1
  /\ UNCHANGED sync

\* p.finally(callback) called by the script, with a callback that returns.
FinallyCall(p) ==
  /\ sync /\ Room
  /\ Commit(Finally(Heap, p, 0))
  /\ capCalls' = Append(capCalls, <<>>)
  /\ ops' = ops + 1
  /\ UNCHANGED sync

\* ---------------------------------------------------------------- runtime
\* The script returns: the call stack is empty.
ScriptEnd ==
  /\ sync
  /\ sync' = FALSE
  /\ UNCHANGED <<state, value, thenCallbacks, catchCallbacks, microtasks,
                 origin, capCalls, calls, ops, combs, closures, settleOrder>>

\* The runtime runs the oldest microtask.
RunMicrotask ==
  /\ ~sync /\ microtasks # <<>>
  /\ LET t == Head(microtasks)
         h == [Heap EXCEPT !.microtasks = Tail(@)]
     IN Commit(IF t.fn = "onFulfilled" THEN OnFulfilledTask(h, t.this, t.arg)
                                       ELSE OnRejectedTask(h, t.this, t.arg))
  /\ capCalls' = capCalls \o [i \in 1..(Len(state') - Len(state)) |-> <<>>]
  /\ UNCHANGED <<sync, ops>>

\* A later task of the script (a timer, an event) starts once the
\* microtask queue is empty.
TaskStart ==
  /\ ~sync /\ microtasks = <<>>
  /\ sync' = TRUE
  /\ UNCHANGED <<state, value, thenCallbacks, catchCallbacks, microtasks,
                 origin, capCalls, calls, ops, combs, closures, settleOrder>>

Next ==
  \/ \E ex \in Executors : NewPromize(ex)
  \/ \E p \in 1..Len(state), x \in Values : Resolve(p, x)
  \/ \E p \in 1..Len(state), x \in Values : Reject(p, x)
  \/ \E x \in Values : StaticResolve(x)
  \/ \E x \in Values : StaticReject(x)
  \/ \E p \in 1..Len(state), f \in Functions, g \in Handlers : ThenCall(p, f, g)
  \/ \E p \in 1..Len(state), f \in Handlers : CatchCall(p, f)
  \/ \E p \in 1..Len(state) : FinallyCall(p)
  \/ ScriptEnd
  \/ RunMicrotask
  \/ TaskStart

Spec == Init /\ [][Next]_vars

\* ---------------------------------------------------------------- combinator calls
\* The objects a call made get an empty history of capability calls.
NoCapCalls ==
  capCalls' = capCalls \o [i \in 1..(Len(state') - Len(state)) |-> <<>>]

\* Promize.all(values) called by the script.
AllCall(values) ==
  /\ sync /\ Room
  /\ Commit(All(Heap, values))
  /\ NoCapCalls
  /\ ops' = ops + 1
  /\ UNCHANGED sync

\* Promize.allSettled(values) called by the script.
AllSettledCall(values) ==
  /\ sync /\ Room
  /\ Commit(AllSettled(Heap, values))
  /\ NoCapCalls
  /\ ops' = ops + 1
  /\ UNCHANGED sync

\* Promize.race(values) called by the script.
RaceCall(values) ==
  /\ sync /\ Room
  /\ Commit(Race(Heap, values))
  /\ NoCapCalls
  /\ ops' = ops + 1
  /\ UNCHANGED sync

\* The script makes the elements and settles them, with plain values, and
\* makes one combinator call.
MakeElements ==
  \/ \E ex \in {e \in Executors : ~InstanceofPromize(e.arg)} : NewPromize(ex)
  \/ \E p \in 1..Len(state), x \in PlainValues : Resolve(p, x)
  \/ \E p \in 1..Len(state), x \in PlainValues : Reject(p, x)
  \/ \E x \in PlainValues : StaticResolve(x)
  \/ \E x \in PlainValues : StaticReject(x)

NextAll ==
  \/ MakeElements
  \/ combs = <<>> /\ \E values \in Inputs : AllCall(values)
  \/ ScriptEnd
  \/ RunMicrotask
  \/ TaskStart

SpecAll == Init /\ [][NextAll]_vars

NextAllSettled ==
  \/ MakeElements
  \/ combs = <<>> /\ \E values \in Inputs : AllSettledCall(values)
  \/ ScriptEnd
  \/ RunMicrotask
  \/ TaskStart

SpecAllSettled == Init /\ [][NextAllSettled]_vars

NextRace ==
  \/ MakeElements
  \/ combs = <<>> /\ \E values \in Inputs : RaceCall(values)
  \/ ScriptEnd
  \/ RunMicrotask
  \/ TaskStart

SpecRace == Init /\ [][NextRace]_vars

\* ---------------------------------------------------------------- chains on one object
\* The state after new Promize(executor), with an executor that keeps its
\* capabilities, calls resolve with 1 or calls reject with 2.
InitDrain ==
  \E ex \in {NoCall, [fn |-> "onFulfilled", arg |-> Plain(1)],
                      [fn |-> "onRejected", arg |-> Plain(2)]} :
    /\ state = <<PENDING>>
    /\ value = <<Undefined>>
    /\ thenCallbacks = << <<>> >>
    /\ catchCallbacks = << <<>> >>
    /\ microtasks = IF ex = NoCall THEN <<>>
                    ELSE <<[fn |-> ex.fn, this |-> 1, arg |-> ex.arg]>>
    /\ sync = TRUE
    /\ origin = <<NoOrigin>>
    /\ capCalls = <<IF ex = NoCall THEN <<>> ELSE <<ex>> >>
    /\ calls = <<>>
    /\ ops = 0
    /\ combs = <<>>
    /\ closures = <<>>
    /\ settleOrder = <<>>

\* The script settles the object and makes chains on it and on the objects
\* derived from it; a handler may make a chain on its own source.
NextDrain ==
  \/ \E p \in 1..Len(state) : Resolve(p, Plain(1))
  \/ \E p \in 1..Len(state) : Reject(p, Plain(2))
  \/ \E p \in 1..Len(state) :
       \E f \in {Id, Throw(Plain(1)), ChainOnce(p)}, g \in {NotFn, Id} :
         ThenCall(p, f, g)
  \/ \E p \in 1..Len(state), f \in {Id, Throw(Plain(1))} : CatchCall(p, f)
  \/ ScriptEnd
  \/ RunMicrotask
  \/ TaskStart

SpecDrain == InitDrain /\ [][NextDrain]_vars

\* The runtime runs the microtasks it has: WF_vars(RunMicrotask), with
\* ENABLED <<RunMicrotask>>_vars written as the state predicate it is (a
\* microtask can be run, and its run changes the queue, exactly when the
\* script has returned and the queue is not empty).
MicrotasksAreRun ==
  []<>(sync \/ microtasks = <<>>) \/ []<><<RunMicrotask>>_vars

\* The script returns and the runtime runs the microtasks it has.
SpecDrainFair ==
  SpecDrain /\ WF_vars(ScriptEnd) /\ MicrotasksAreRun

\* ---------------------------------------------------------------- claims
Objects == 1..Len(state)
Settled(p) == state[p] # PENDING
HandlerOn(d, path) ==
  IF path = "then" THEN origin[d].onFulfilled ELSE origin[d].onRejected
StateOf(fn) == IF fn = "onFulfilled" THEN FULFILLED ELSE REJECTED

\* C1: every object starts PENDING with value undefined, is undefined while
\* PENDING, and once its state has left PENDING neither its state nor its
\* value changes in any later step.
C1_SettleOnce ==
  [][/\ \A p \in Objects :
          /\ Settled(p) => state'[p] = state[p] /\ value'[p] = value[p]
          /\ ~Settled(p) => value[p] = Undefined
     /\ \A p \in (Len(state) + 1)..Len(state') :
          state'[p] = PENDING /\ value'[p] = Undefined]_vars

\* C1 witness: the script made two capability calls on an object, the first
\* to resolve and the second to reject, both attempts have run, and the
\* object is FULFILLED with the first call's value.
C1_Witness ==
  \E p \in Objects :
    /\ Len(capCalls[p]) >= 2
    /\ capCalls[p][1].fn = "onFulfilled" /\ capCalls[p][2].fn = "onRejected"
    /\ microtasks = <<>>
    /\ state[p] = FULFILLED /\ value[p] = capCalls[p][1].arg

\* C2 (as claimed): the first capability call made on an object decides its
\* settlement: a settled object has the state and value of its first call,
\* or, when that call passed a Promize, the state and value of that Promize.
C2_FirstCallWins ==
  \A p \in Objects :
    (capCalls[p] # <<>> /\ Settled(p)) =>
      LET c == capCalls[p][1]
      IN IF InstanceofPromize(c.arg)
         THEN /\ Settled(c.arg.v)
              /\ state[p] = state[c.arg.v] /\ value[p] = value[c.arg.v]
         ELSE state[p] = StateOf(c.fn) /\ value[p] = c.arg

\* C3: no step of script code changes the state of an object (a capability
\* call only schedules), and no handler of a chain made on a source that is
\* still PENDING is invoked within script code.
C3_SettlementDeferred ==
  [][sync =>
       /\ \A p \in Objects : state'[p] = state[p]
       /\ \A i \in (Len(calls) + 1)..Len(calls') :
            Settled(origin'[calls'[i].d].src)]_vars

\* C3 witness: in script code, the executor has called a capability, a
\* chain has been made on the object, the object is still PENDING and no
\* handler has been invoked.
C3_Witness ==
  \E p \in Objects :
    /\ sync /\ ~Settled(p) /\ calls = <<>>
    /\ capCalls[p] # <<>>
    /\ \E i \in 1..Len(thenCallbacks[p]) : IsFunction(thenCallbacks[p][i].handler)

\* C4 (as claimed): no handler is ever invoked within script code, also
\* not the handler of a chain made on a settled object.
C4_NeverInline ==
  \A i \in 1..Len(calls) : ~calls[i].inline

\* C5: handlers of the same object run in the order of their chain calls:
\* when the handler of a chain has been invoked on a path, the handler of
\* every earlier chain on the same object with a function on that path has
\* been invoked before it.
C5_Fifo ==
  \A j \in 1..Len(calls) :
    \A d \in Objects :
      ( /\ origin[d].kind = "then"
        /\ origin[d].src = origin[calls[j].d].src
        /\ d < calls[j].d
        /\ IsFunction(HandlerOn(d, calls[j].path)) )
      => \E i \in 1..(j - 1) : calls[i].d = d /\ calls[i].path = calls[j].path

\* C5 witness: two chains made on a pending object had their handlers
\* invoked by the same settlement, the earlier chain first.
C5_Witness ==
  \E i, j \in 1..Len(calls) :
    /\ i < j
    /\ calls[i].d < calls[j].d
    /\ origin[calls[i].d].src = origin[calls[j].d].src
    /\ ~calls[i].inline /\ ~calls[j].inline

FirstCallIs(p, fn) ==
  /\ capCalls[p] # <<>>
  /\ capCalls[p][1].fn = fn
  /\ InstanceofPromize(capCalls[p][1].arg)
Inner(p) == capCalls[p][1].arg.v
Quiet == microtasks = <<>>

\* C6 (as claimed): an object whose resolve capability was called with a
\* Promize is never FULFILLED with that Promize as value, and it ends with
\* the state and value of that Promize: whenever it is settled, and
\* whenever the Promize is settled and no microtask is left.
C6_ResolveAdopts ==
  \A p \in Objects :
    FirstCallIs(p, "onFulfilled") =>
      /\ ~(state[p] = FULFILLED /\ value[p] = Ref(Inner(p)))
      /\ (Settled(p) \/ (Quiet /\ Settled(Inner(p)))) =>
           /\ Settled(Inner(p))
           /\ state[p] = state[Inner(p)] /\ value[p] = value[Inner(p)]

\* C7 (as claimed): an object whose reject capability was called with a
\* Promize is never REJECTED with that Promize as value, and it ends with
\* the state and value of that Promize.
C7_RejectAdopts ==
  \A p \in Objects :
    FirstCallIs(p, "onRejected") =>
      /\ ~(state[p] = REJECTED /\ value[p] = Ref(Inner(p)))
      /\ (Settled(p) \/ (Quiet /\ Settled(Inner(p)))) =>
           /\ Settled(Inner(p))
           /\ state[p] = state[Inner(p)] /\ value[p] = value[Inner(p)]

\* C6 and C7 with the call that passes the Promize as the only capability
\* call made on the object: the object is never settled with the Promize
\* as value and ends with the state and value of the Promize.
SingleCallAdopts ==
  \A p \in Objects :
    ( /\ Len(capCalls[p]) = 1
      /\ FirstCallIs(p, "onFulfilled") \/ FirstCallIs(p, "onRejected") ) =>
      /\ ~InstanceofPromize(value[p])
      /\ (Settled(p) \/ (Quiet /\ Settled(Inner(p)))) =>
           /\ Settled(Inner(p))
           /\ state[p] = state[Inner(p)] /\ value[p] = value[Inner(p)]

\* C8 (as claimed): the object made by Promize.reject(x) with x a Promize
\* is never FULFILLED, and once settled it is REJECTED with x itself.
C8_StaticRejectKeepsReason ==
  \A p \in Objects :
    (origin[p].kind = "reject" /\ InstanceofPromize(origin[p].arg)) =>
      /\ state[p] # FULFILLED
      /\ Settled(p) => state[p] = REJECTED /\ value[p] = origin[p].arg

\* The derived object of a chain has the given state and value once it is
\* settled, and is settled once no microtask is left.
EndsAs(d, s, x) ==
  (Settled(d) \/ Quiet) => state[d] = s /\ value[d] = x

\* C9: for d = f.then(onFulfilled, onRejected): when f is FULFILLED with v
\* and onFulfilled is not a function, d ends FULFILLED with v; when f is
\* REJECTED with r and onRejected is not a function, d ends REJECTED with
\* r; and Promize.reject(e).then(v => v).catch(r => r) ends FULFILLED
\* with e.
C9_Forwarding ==
  \A d \in Objects :
    origin[d].kind = "then" =>
      LET f == origin[d].src
      IN /\ (state[f] = FULFILLED /\ ~IsFunction(origin[d].onFulfilled))
              => EndsAs(d, FULFILLED, value[f])
         /\ (state[f] = REJECTED /\ ~IsFunction(origin[d].onRejected))
              => EndsAs(d, REJECTED, value[f])
         /\ ( /\ origin[d].onFulfilled = NotFn /\ origin[d].onRejected = Id
              /\ origin[f].kind = "then"
              /\ origin[f].onFulfilled = Id /\ origin[f].onRejected = NotFn
              /\ origin[origin[f].src].kind = "reject"
              /\ ~InstanceofPromize(origin[origin[f].src].arg)
              /\ Settled(origin[f].src) )
              => EndsAs(d, FULFILLED, origin[origin[f].src].arg)

\* C9 witness: Promize.reject(e).then(v => v).catch(r => r) has run to its
\* end and the last object is FULFILLED with e.
C9_Witness ==
  \E d \in Objects :
    /\ origin[d].kind = "then"
    /\ origin[d].onFulfilled = NotFn /\ origin[d].onRejected = Id
    /\ origin[origin[d].src].kind = "then"
    /\ origin[origin[d].src].onFulfilled = Id
    /\ origin[origin[d].src].onRejected = NotFn
    /\ origin[origin[origin[d].src].src].kind = "reject"
    /\ state[origin[d].src] = REJECTED
    /\ state[d] = FULFILLED
    /\ value[d] = origin[origin[origin[d].src].src].arg

\* What a function that does not throw returns when called with x.
Returns(f, x) ==
  CASE f.kind = "id" -> x
    [] f.kind = "const" -> f.arg
    [] OTHER -> Undefined
ReturnsPlain(f) ==
  /\ f.kind \in {"id", "const", "onFulfilledBind", "onRejectedBind"}
  /\ ~InstanceofPromize(f.arg) \/ f.kind # "const"

\* C10: for d = f.then(onFulfilled, onRejected): when f is FULFILLED and
\* onFulfilled is a function that returns a plain value x, d ends FULFILLED
\* with x; when f is REJECTED and onRejected is a function that returns a
\* plain value x, d ends FULFILLED with x as well.
C10_HandlerResult ==
  \A d \in Objects :
    origin[d].kind = "then" =>
      LET f == origin[d].src
      IN /\ (state[f] = FULFILLED /\ ReturnsPlain(origin[d].onFulfilled))
              => EndsAs(d, FULFILLED, Returns(origin[d].onFulfilled, value[f]))
         /\ (state[f] = REJECTED /\ ReturnsPlain(origin[d].onRejected))
              => EndsAs(d, FULFILLED, Returns(origin[d].onRejected, value[f]))

\* C10 witness: the source is REJECTED with 1, its onRejected handler
\* returned 2, and the derived object is FULFILLED with 2.
C10_Witness ==
  \E d \in Objects :
    /\ origin[d].kind = "then"
    /\ origin[d].onRejected = Const(Plain(2))
    /\ state[origin[d].src] = REJECTED /\ value[origin[d].src] = Plain(1)
    /\ \E i \in 1..Len(calls) : calls[i].d = d /\ calls[i].path = "catch"
    /\ state[d] = FULFILLED /\ value[d] = Plain(2)

\* C11: for d = f.then(onFulfilled, onRejected): when the handler of the
\* path f settled on throws e, d ends REJECTED with e; and f is not altered:
\* no step of script code (a then, catch or finally call) changes the state
\* or value of an object, a microtask changes at most the object it
\* settles, and after a step that invoked a handler the source has the
\* state of the handler's path and the value the handler was passed.
C11_HandlerThrow ==
  /\ [](\A d \in Objects :
          origin[d].kind = "then" =>
            LET f == origin[d].src
            IN /\ (state[f] = FULFILLED /\ origin[d].onFulfilled.kind = "throw")
                    => EndsAs(d, REJECTED, origin[d].onFulfilled.arg)
               /\ (state[f] = REJECTED /\ origin[d].onRejected.kind = "throw")
                    => EndsAs(d, REJECTED, origin[d].onRejected.arg))
  /\ [][/\ \A p \in Objects :
             (sync \/ microtasks = <<>> \/ p # Head(microtasks).this)
               => state'[p] = state[p] /\ value'[p] = value[p]
        /\ \A i \in (Len(calls) + 1)..Len(calls') :
             LET f == origin'[calls'[i].d].src
             IN /\ state'[f] = (IF calls'[i].path = "then" THEN FULFILLED
                                                           ELSE REJECTED)
                /\ value'[f] = calls'[i].arg]_vars

\* C11 witness: the source is FULFILLED with 2, its onFulfilled handler was
\* invoked and threw 1, and the derived object is REJECTED with 1.
C11_Witness ==
  \E d \in Objects :
    /\ origin[d].kind = "then"
    /\ origin[d].onFulfilled = Throw(Plain(1))
    /\ state[origin[d].src] = FULFILLED /\ value[origin[d].src] = Plain(2)
    /\ \E i \in 1..Len(calls) : calls[i].d = d /\ calls[i].path = "then"
    /\ state[d] = REJECTED /\ value[d] = Plain(1)

\* C12: an object whose executor threw the error e before any capability
\* call exists (the constructor returned it), is never FULFILLED and ends
\* REJECTED with e, whatever capability calls the script makes later.
C12_ExecutorThrow ==
  \A p \in Objects :
    (capCalls[p] # <<>> /\ capCalls[p][1].fn = "throw") =>
      EndsAs(p, REJECTED, capCalls[p][1].arg)

\* C12 witness: the executor threw 1, the script then called the resolve
\* capability it had kept, and the object is REJECTED with 1.
C12_Witness ==
  \E p \in Objects :
    /\ Len(capCalls[p]) = 2
    /\ capCalls[p][1] = [fn |-> "throw", arg |-> Plain(1)]
    /\ capCalls[p][2].fn = "onFulfilled"
    /\ Quiet /\ ~sync
    /\ state[p] = REJECTED /\ value[p] = Plain(1)

\* C13: for d = f.finally(onSettle) with an onSettle that returns: when f
\* is FULFILLED with v, d ends FULFILLED with v, when f is REJECTED with r,
\* d ends REJECTED with r, and in both cases onSettle has been invoked
\* once d is settled or no microtask is left.
C13_Finally ==
  \A d \in Objects :
    (origin[d].kind = "then" /\ origin[d].onFulfilled = FinallyThen(0)
                            /\ origin[d].onRejected = FinallyCatch(0)) =>
      LET f == origin[d].src
      IN /\ Settled(f) => EndsAs(d, state[f], value[f])
         /\ Settled(d) =>
              \E i \in 1..Len(calls) : calls[i].d = d /\ calls[i].callback
         /\ (Settled(f) /\ Quiet) =>
              \E i \in 1..Len(calls) : calls[i].d = d /\ calls[i].callback

\* C13 witness: the source is REJECTED with 1, onSettle was invoked and the
\* object finally returned is REJECTED with 1.
C13_Witness ==
  \E d \in Objects :
    /\ origin[d].kind = "then" /\ origin[d].onRejected = FinallyCatch(0)
    /\ state[origin[d].src] = REJECTED /\ value[origin[d].src] = Plain(1)
    /\ \E i \in 1..Len(calls) :
         calls[i].d = d /\ calls[i].path = "catch" /\ calls[i].callback
    /\ state[d] = REJECTED /\ value[d] = Plain(1)

\* The combinator calls of a kind, and what is known of an element.
CombsOf(kind) == {k \in 1..Len(combs) : combs[k].kind = kind}
IsPromizeAt(k, i) == InstanceofPromize(combs[k].values[i])
ElementAt(k, i) == combs[k].values[i].v

\* C14: whenever the object returned by all(values) is FULFILLED, every
\* element that is a Promize is FULFILLED, and the value is the result
\* array, as long as values, whose i-th entry is the i-th element when that
\* is a plain value and the value of the i-th element when that is a
\* Promize.
C14_AllResult ==
  \A k \in CombsOf("all") :
    state[combs[k].promise] = FULFILLED =>
      /\ value[combs[k].promise] = ArrayRef(k)
      /\ Len(combs[k].result) = Len(combs[k].values)
      /\ \A i \in 1..Len(combs[k].values) :
           IF IsPromizeAt(k, i)
           THEN /\ state[ElementAt(k, i)] = FULFILLED
                /\ combs[k].result[i] = Item(value[ElementAt(k, i)])
           ELSE combs[k].result[i] = Item(combs[k].values[i])

\* C14 witness: all([Promize.resolve(1), 2, Promize.resolve(2)]) is
\* FULFILLED with [1, 2, 2].
C14_Witness ==
  \E k \in CombsOf("all") :
    /\ Len(combs[k].values) = 3
    /\ IsPromizeAt(k, 1) /\ origin[ElementAt(k, 1)].kind = "resolve"
    /\ combs[k].values[2] = Plain(2)
    /\ IsPromizeAt(k, 3) /\ origin[ElementAt(k, 3)].kind = "resolve"
    /\ ElementAt(k, 1) # ElementAt(k, 3)
    /\ state[combs[k].promise] = FULFILLED
    /\ combs[k].result = <<Item(Plain(1)), Item(Plain(2)), Item(Plain(2))>>

\* The elements of the k-th call that are REJECTED, the place of an object
\* in the order of settlements, and the rejected element settled first.
RejectedAt(k) ==
  {i \in 1..Len(combs[k].values) :
     IsPromizeAt(k, i) /\ state[ElementAt(k, i)] = REJECTED}
SettledPos(p) == CHOOSE j \in 1..Len(settleOrder) : settleOrder[j] = p
FirstRejected(k) ==
  CHOOSE i \in RejectedAt(k) :
    \A j \in RejectedAt(k) : SettledPos(ElementAt(k, i)) <= SettledPos(ElementAt(k, j))

\* C15 (as claimed): when an element of all(values) is REJECTED, the object
\* returned is never FULFILLED, and once it is settled or no microtask is
\* left it is REJECTED with the reason of the element that was rejected
\* first.
C15_AllRejectsWithFirst ==
  \A k \in CombsOf("all") :
    RejectedAt(k) # {} =>
      /\ state[combs[k].promise] # FULFILLED
      /\ EndsAs(combs[k].promise, REJECTED, value[ElementAt(k, FirstRejected(k))])

\* The element whose rejection all(values) gets first: the first in input
\* order of those already REJECTED when the call was made, and when there
\* is none, the element rejected first after the call.
RejectedAtCall(k) ==
  {i \in 1..Len(combs[k].values) : combs[k].atCall[i] = REJECTED}
FirstObserved(k) ==
  IF RejectedAtCall(k) # {}
  THEN CHOOSE i \in RejectedAtCall(k) : \A j \in RejectedAtCall(k) : i <= j
  ELSE FirstRejected(k)

\* C15 (amended): when an element of all(values) is REJECTED, the object
\* returned is never FULFILLED, and once it is settled or no microtask is
\* left it is REJECTED with the reason of an element: of the first in
\* input order among the elements that were already REJECTED at the call,
\* and when there was none, of the element that was rejected first.
C15_AllRejectsWithFirstObserved ==
  \A k \in CombsOf("all") :
    RejectedAt(k) # {} =>
      /\ state[combs[k].promise] # FULFILLED
      /\ EndsAs(combs[k].promise, REJECTED, value[ElementAt(k, FirstObserved(k))])

\* C15 witness: two elements rejected after the call, the second of the
\* input before the first, and the object returned is REJECTED with the
\* reason of the one rejected first.
C15_Witness ==
  \E k \in CombsOf("all") :
    /\ Len(combs[k].values) = 2
    /\ combs[k].atCall = <<PENDING, PENDING>>
    /\ RejectedAt(k) = {1, 2}
    /\ SettledPos(ElementAt(k, 2)) < SettledPos(ElementAt(k, 1))
    /\ value[ElementAt(k, 1)] # value[ElementAt(k, 2)]
    /\ state[combs[k].promise] = REJECTED
    /\ value[combs[k].promise] = value[ElementAt(k, 2)]

\* C16 (as claimed): the object returned by all([]) becomes FULFILLED with
\* an empty array: it is so whenever the script has returned and no
\* microtask is left.
C16_AllEmptyFulfils ==
  \A k \in CombsOf("all") :
    (combs[k].values = <<>> /\ ~sync /\ Quiet) =>
      /\ state[combs[k].promise] = FULFILLED
      /\ value[combs[k].promise] = ArrayRef(k)
      /\ combs[k].result = <<>>

\* What the code does instead: the object returned by all([]) is PENDING in
\* every state, and the call queues no microtask for it.
AllEmptyStaysPending ==
  \A k \in CombsOf("all") :
    combs[k].values = <<>> =>
      /\ state[combs[k].promise] = PENDING
      /\ \A j \in 1..Len(microtasks) : microtasks[j].this # combs[k].promise

\* The record allSettled owes to the element i of its k-th call.
RecordOf(k, i) ==
  IF IsPromizeAt(k, i)
  THEN SettledRecord(IF state[ElementAt(k, i)] = FULFILLED THEN "fulfilled"
                                                           ELSE "rejected",
                     value[ElementAt(k, i)])
  ELSE SettledRecord("fulfilled", combs[k].values[i])

\* C17: the object returned by allSettled(values) is never REJECTED, and
\* whenever it is FULFILLED every element that is a Promize is settled and
\* the value is the result array, as long as values, whose i-th entry is
\* the record of the i-th element: fulfilled with its value, or rejected
\* with its reason.
C17_AllSettledResult ==
  \A k \in CombsOf("allSettled") :
    /\ state[combs[k].promise] # REJECTED
    /\ state[combs[k].promise] = FULFILLED =>
         /\ value[combs[k].promise] = ArrayRef(k)
         /\ Len(combs[k].result) = Len(combs[k].values)
         /\ \A i \in 1..Len(combs[k].values) :
              /\ IsPromizeAt(k, i) => Settled(ElementAt(k, i))
              /\ combs[k].result[i] = RecordOf(k, i)

\* C17 witness: allSettled([Promize.resolve(1), Promize.reject(2)]) is
\* FULFILLED with [{fulfilled, 1}, {rejected, 2}].
C17_Witness ==
  \E k \in CombsOf("allSettled") :
    /\ Len(combs[k].values) = 2
    /\ IsPromizeAt(k, 1) /\ origin[ElementAt(k, 1)].kind = "resolve"
    /\ IsPromizeAt(k, 2) /\ origin[ElementAt(k, 2)].kind = "reject"
    /\ state[combs[k].promise] = FULFILLED
    /\ combs[k].result = <<SettledRecord("fulfilled", Plain(1)),
                           SettledRecord("rejected", Plain(2))>>

\* Every element of the k-th call that is a Promize is settled.
AllElementsSettled(k) ==
  \A i \in 1..Len(combs[k].values) :
    IsPromizeAt(k, i) => Settled(ElementAt(k, i))

\* C18 (as claimed): for every values, once every element is settled the
\* object returned by allSettled(values) becomes FULFILLED: it is so
\* whenever the script has returned and no microtask is left.
C18_AllSettledFulfils ==
  \A k \in CombsOf("allSettled") :
    (AllElementsSettled(k) /\ ~sync /\ Quiet) =>
      state[combs[k].promise] = FULFILLED

\* C18 holds of every call with at least one element, rejected elements
\* included; the object returned by allSettled([]) is PENDING in every
\* state.
AllSettledNonEmptyFulfils ==
  \A k \in CombsOf("allSettled") :
    IF combs[k].values = <<>>
    THEN state[combs[k].promise] = PENDING
    ELSE (AllElementsSettled(k) /\ Quiet) => state[combs[k].promise] = FULFILLED

\* The calls of race whose elements are all Promize objects, the elements
\* that are settled, and the one settled first.
RacesOfPromizes ==
  {k \in CombsOf("race") : \A i \in 1..Len(combs[k].values) : IsPromizeAt(k, i)}
SettledAt(k) ==
  {i \in 1..Len(combs[k].values) : Settled(ElementAt(k, i))}
FirstSettled(k) ==
  CHOOSE i \in SettledAt(k) :
    \A j \in SettledAt(k) : SettledPos(ElementAt(k, i)) <= SettledPos(ElementAt(k, j))

\* C19 (as claimed): when an element of race(values) is settled, the object
\* returned, once it is settled or no microtask is left, has the state and
\* value of the element that was settled first, also when that element is
\* REJECTED and another is FULFILLED later.
C19_RaceFirstSettled ==
  \A k \in RacesOfPromizes :
    SettledAt(k) # {} =>
      EndsAs(combs[k].promise, state[ElementAt(k, FirstSettled(k))],
             value[ElementAt(k, FirstSettled(k))])

\* C19 for the calls made while every element is PENDING, so that the
\* order of the input plays no part: violated as well (an element is
\* REJECTED first, another is FULFILLED in the next microtask, and the
\* object returned is FULFILLED).
RaceFirstSettledAfterCall ==
  \A k \in RacesOfPromizes :
    (SettledAt(k) # {} /\ \A i \in 1..Len(combs[k].values) :
                            combs[k].atCall[i] = PENDING) =>
      EndsAs(combs[k].promise, state[ElementAt(k, FirstSettled(k))],
             value[ElementAt(k, FirstSettled(k))])

\* What holds of race: when the element settled first is FULFILLED, the
\* object returned ends FULFILLED with its value (calls made while every
\* element is PENDING).
RaceFirstFulfilledWins ==
  \A k \in RacesOfPromizes :
    ( /\ SettledAt(k) # {}
      /\ \A i \in 1..Len(combs[k].values) : combs[k].atCall[i] = PENDING
      /\ state[ElementAt(k, FirstSettled(k))] = FULFILLED ) =>
      EndsAs(combs[k].promise, FULFILLED, value[ElementAt(k, FirstSettled(k))])

\* C20: when the first element of race(values) is a plain value v, the
\* object returned is never REJECTED and, once it is settled or no
\* microtask is left, is FULFILLED with v, whatever the later elements.
C20_RacePlainFirst ==
  \A k \in CombsOf("race") :
    (combs[k].values # <<>> /\ ~IsPromizeAt(k, 1)) =>
      /\ state[combs[k].promise] # REJECTED
      /\ EndsAs(combs[k].promise, FULFILLED, combs[k].values[1])

\* C20 witness: race([1, Promize.resolve(2)]) is FULFILLED with 1 and the
\* second element is FULFILLED with 2.
C20_Witness ==
  \E k \in CombsOf("race") :
    /\ Len(combs[k].values) = 2
    /\ combs[k].values[1] = Plain(1)
    /\ IsPromizeAt(k, 2) /\ origin[ElementAt(k, 2)].kind = "resolve"
    /\ state[ElementAt(k, 2)] = FULFILLED /\ value[ElementAt(k, 2)] = Plain(2)
    /\ state[combs[k].promise] = FULFILLED
    /\ value[combs[k].promise] = Plain(1)

\* C21: the object returned by race([]) is PENDING in every state, and no
\* microtask is ever queued for it.
C21_RaceEmptyPending ==
  \A k \in CombsOf("race") :
    combs[k].values = <<>> =>
      /\ state[combs[k].promise] = PENDING
      /\ \A j \in 1..Len(microtasks) : microtasks[j].this # combs[k].promise

\* C21 witness: race([]) was called, other objects have been settled since,
\* the script has returned, no microtask is left, and the object returned is
\* PENDING.
C21_Witness ==
  \E k \in CombsOf("race") :
    /\ combs[k].values = <<>>
    /\ ~sync /\ Quiet
    /\ \E p \in Objects : p > combs[k].promise /\ Settled(p)
    /\ state[combs[k].promise] = PENDING

\* C22 (as claimed): for every chain at most one handler invocation is ever
\* made, whichever of its two handlers it is: no two entries of the log of
\* invocations are of the same chain.  This includes the chains of an
\* object on which a handler, while the queue is run, makes another chain.
C22_AtMostOnce ==
  \A i, j \in 1..Len(calls) : i # j => calls[i].d # calls[j].d

\* What holds instead: a chain has its handler invoked twice only when a
\* handler of the same source, invoked before the second time, has made a
\* chain on that source while its queue was being run; and never are both
\* handlers of a chain invoked.
AtMostOnceUnlessReentered ==
  \A i, j \in 1..Len(calls) :
    (i < j /\ calls[i].d = calls[j].d) =>
      /\ calls[i].path = calls[j].path
      /\ \E m \in 1..(j - 1) :
           /\ origin[calls[m].d].src = origin[calls[i].d].src
           /\ origin[calls[m].d].onFulfilled.kind = "chainOnce"
           /\ calls[m].path = "then"

\* The path a settled object is on, the chains made on an object, and
\* whether the handler of a chain has been invoked on a path.
PathOf(f) == IF state[f] = FULFILLED THEN "then" ELSE "catch"
ChainsOn(f) == {d \in Objects : origin[d].kind = "then" /\ origin[d].src = f}
Invoked(d, path) ==
  \E i \in 1..Len(calls) : calls[i].d = d /\ calls[i].path = path

\* C23: when an object is settled and the handler of one of its chains on
\* the path it settled on throws, the handler of every other chain on it
\* with a function on that path has been invoked as well, with the
\* object's value, in the same step; the run of the queue has come to its
\* end (the queue is empty) and the error has gone to the object derived by
\* the chain whose handler threw, which ends REJECTED with it.
C23_ThrowDoesNotStopDrain ==
  \A f \in Objects :
    Settled(f) =>
      \A a \in ChainsOn(f) :
        HandlerOn(a, PathOf(f)).kind = "throw" =>
          /\ Invoked(a, PathOf(f))
          /\ \A b \in ChainsOn(f) :
               IsFunction(HandlerOn(b, PathOf(f))) =>
                 \E j \in 1..Len(calls) :
                   /\ calls[j].d = b /\ calls[j].path = PathOf(f)
                   /\ calls[j].arg = value[f]
          /\ IF state[f] = FULFILLED THEN thenCallbacks[f] = <<>>
                                     ELSE catchCallbacks[f] = <<>>
          /\ EndsAs(a, REJECTED, HandlerOn(a, PathOf(f)).arg)

\* C23 witness: three chains were made on a pending object, the handler of
\* the first throws, and one microtask settled the object and invoked the
\* three handlers in order.
C23_Witness ==
  \E f \in Objects :
    \E a, b, c \in ChainsOn(f) :
      /\ a < b /\ b < c
      /\ state[f] = FULFILLED
      /\ origin[a].onFulfilled = Throw(Plain(1))
      /\ origin[b].onFulfilled = Id /\ origin[c].onFulfilled = Id
      /\ Len(calls) = 3
      /\ calls[1].d = a /\ calls[2].d = b /\ calls[3].d = c
      /\ \A i \in 1..3 : ~calls[i].inline

\* The objects a run of SpecDrain can hold: the first, one for each call of
\* the script, and one for each chain a handler makes.
MaxObjects == 1 + 2 * MaxOps

\* The settlement of f on a path is under way: f is PENDING and the oldest
\* microtask queued for it is an attempt on that path with a plain value.
Settling(f, path) ==
  /\ state[f] = PENDING
  /\ \E j \in 1..Len(microtasks) :
       /\ microtasks[j].this = f
       /\ ~InstanceofPromize(microtasks[j].arg)
       /\ microtasks[j].fn = (IF path = "then" THEN "onFulfilled" ELSE "onRejected")
       /\ \A i \in 1..(j - 1) : microtasks[i].this # f

\* The chain d is registered on a source that settles on the path.
Registered(d, path) ==
  /\ d \in Objects
  /\ origin[d].kind = "then"
  /\ \/ Settled(origin[d].src) /\ PathOf(origin[d].src) = path
     \/ Settling(origin[d].src, path)

\* The continuation of the chain d for the path its source settled on has
\* been invoked: d is settled, and when d's handler for that path is a
\* function, the handler has been invoked.
Served(d) ==
  /\ d \in Objects
  /\ origin[d].kind = "then"
  /\ Settled(origin[d].src) /\ Settled(d)
  /\ IsFunction(HandlerOn(d, PathOf(origin[d].src)))
       => Invoked(d, PathOf(origin[d].src))

\* C24: when the script returns and the runtime runs the microtasks, for
\* every chain d made on an object f, before or after f is settled: when f
\* settles, the continuation of d for the path f settles on is eventually
\* invoked.
C24_ChainIsServed ==
  \A d \in 1..MaxObjects :
    (\E path \in {"then", "catch"} : Registered(d, path)) ~> Served(d)

\* C24 witness: a chain was made on a PENDING object with nothing queued
\* for it, the script later called a capability, the object settled, the
\* chain's handler was invoked from the microtask and the derived object
\* is settled; a second chain, made after the settlement, had its handler
\* invoked too.
C24_Witness ==
  \E f \in Objects : \E d, e \in ChainsOn(f) :
    /\ d < e
    /\ Settled(f) /\ Settled(d) /\ Settled(e)
    /\ \E i, j \in 1..Len(calls) :
         /\ i < j
         /\ calls[i].d = d /\ ~calls[i].inline
         /\ calls[j].d = e /\ calls[j].inline

\* The first capability call of p passed p itself: r(p), with r the resolve
\* or the reject capability of p.
SelfAdopts(p) ==
  /\ capCalls[p] # <<>>
  /\ capCalls[p][1].fn \in {"onFulfilled", "onRejected"}
  /\ capCalls[p][1].arg = Ref(p)

\* C25 (as claimed): an object whose capability was called with the object
\* itself ends in failure: once the script has returned and no microtask is
\* left, it is REJECTED.
C25_SelfAdoptionRejects ==
  \A p \in Objects : (SelfAdopts(p) /\ ~sync /\ Quiet) => state[p] = REJECTED

\* What the code does instead: the microtask calls then on the object
\* itself with its own capabilities (lines 290-300, 324-334), which
\* registers them on its own queues and settles nothing. While the
\* self-adopting call is the only capability call, the object is PENDING in
\* every state, and once the microtask has run its own capabilities wait
\* on its own queues.
SelfAdoptionStaysPending ==
  \A p \in Objects :
    (SelfAdopts(p) /\ Len(capCalls[p]) = 1) =>
      /\ state[p] = PENDING
      /\ (\A j \in 1..Len(microtasks) : microtasks[j].this # p) =>
            /\ thenCallbacks[p] # <<>>
            /\ catchCallbacks[p] # <<>>

====
